---- MODULE Spec2Model ----
(***************************************************************************)
(* Model of pix (src/main.rs): the `post` command (start-date validation,  *)
(* Mon/Wed/Fri scheduling, tag extraction, post file naming) and the       *)
(* offset arithmetic of `add_watermark` used by the `mark` command.        *)
(*                                                                         *)
(* Strings are sequences of one-character strings.  A calendar date is the *)
(* number of days since 2024-01-01 (a Monday); a NaiveDateTime is the      *)
(* number of seconds since 2024-01-01 00:00:00.  A u32 is a pair of 16-bit *)
(* halves [hi, lo] so that 32-bit wrap-around keeps its real width.        *)
(***************************************************************************)
EXTENDS Integers, Sequences, FiniteSets, TLC

VARIABLES command, pc, result, dir, date, files, idx, post_date_time,
          enumerated, prompts, advances, context, written,
          build, image, watermark_image, offset

vars == <<command, pc, result, dir, date, files, idx, post_date_time,
          enumerated, prompts, advances, context, written,
          build, image, watermark_image, offset>>

postVars == <<date, files, idx, post_date_time, enumerated, prompts,
              advances, context, written>>

markVars == <<build, image, watermark_image, offset>>

(* ---------------------------- bounds ----------------------------------- *)

MaxFiles == 2
MaxTextLen == 4
MaxAltLen == 1
MaxDay == 6
MaxDim == 1

(* ------------------------- calendar (chrono) --------------------------- *)

SecondsPerDay == 86400
SevenAM == 25200
EpochDays2024 == 19723

WeekdayNames == <<"Mon", "Tue", "Wed", "Thu", "Fri", "Sat", "Sun">>

\* NaiveDate::weekday
Weekday(d) == WeekdayNames[(d % 7) + 1]

\* NaiveDateTime::date, NaiveDateTime::time
DateOf(dt) == dt \div SecondsPerDay
TimeOf(dt) == dt % SecondsPerDay

\* NaiveDateTime::weekday
DateTimeWeekday(dt) == Weekday(DateOf(dt))

\* date.and_time(NaiveTime::from_hms_opt(7, 0, 0).unwrap())
AndTime(d) == d * SecondsPerDay + SevenAM

\* NaiveDateTime::timestamp: seconds since 1970-01-01
Timestamp(dt) == EpochDays2024 * SecondsPerDay + dt

\* post_date_time += chrono::Duration::days(n)
AddDays(dt, n) == dt + n * SecondsPerDay

\* The start-date check of post: TRUE when the date is accepted.
ValidStart_NoFriday(d) == Weekday(d) = "Mon" \/ Weekday(d) = "Wed"

ValidStart_AcceptsTuesday(d) == Weekday(d) \in {"Mon", "Tue", "Wed", "Fri"}

ValidStart(d) ==
    ~ (/\ Weekday(d) # "Mon"
       /\ Weekday(d) # "Wed"
       /\ Weekday(d) # "Fri")

\* Bump date_time to the next Monday, Wednesday, or Friday
Advance_FridayPlusTwo(dt) == AddDays(dt, 2)

Advance_FridayStuck(dt) ==
    IF DateTimeWeekday(dt) = "Mon" \/ DateTimeWeekday(dt) = "Wed"
    THEN AddDays(dt, 2)
    ELSE dt

Advance_TwoHours(dt) ==
    IF DateTimeWeekday(dt) = "Mon" \/ DateTimeWeekday(dt) = "Wed"
    THEN dt + 2 * 3600
    ELSE IF DateTimeWeekday(dt) = "Fri" THEN AddDays(dt, 3) ELSE dt

Advance(dt) ==
    IF DateTimeWeekday(dt) = "Mon" \/ DateTimeWeekday(dt) = "Wed"
    THEN AddDays(dt, 2)
    ELSE IF DateTimeWeekday(dt) = "Fri" THEN AddDays(dt, 3) ELSE dt

(* --------------------------- file stems -------------------------------- *)

DigitChars == <<"0", "1", "2", "3", "4", "5", "6", "7", "8", "9">>

IsDigit(c) == \E i \in 1..10 : DigitChars[i] = c

DigitValue(c) == (CHOOSE i \in 1..10 : DigitChars[i] = c) - 1

MaxI32 == 2147483647
MinI32 == -2147483647 - 1

\* i32::from_str: the digits of s from position i on, accumulated into acc
\* with checked_mul(10) and checked_add (positive) or checked_sub (negative).
RECURSIVE ParseDigits(_, _, _, _)
ParseDigits(s, i, acc, positive) ==
    IF i > Len(s) THEN [ok |-> TRUE, value |-> acc]
    ELSE IF ~ IsDigit(s[i]) THEN [ok |-> FALSE, value |-> 0]
    ELSE IF positive
         THEN IF acc > MaxI32 \div 10 \/ acc * 10 > MaxI32 - DigitValue(s[i])
              THEN [ok |-> FALSE, value |-> 0]
              ELSE ParseDigits(s, i + 1, acc * 10 + DigitValue(s[i]), positive)
         ELSE IF acc < -(MaxI32 \div 10) \/ acc * 10 < MinI32 + DigitValue(s[i])
              THEN [ok |-> FALSE, value |-> 0]
              ELSE ParseDigits(s, i + 1, acc * 10 - DigitValue(s[i]), positive)

\* file_name.parse::<i32>()
ParseI32(s) ==
    IF Len(s) = 0 THEN [ok |-> FALSE, value |-> 0]
    ELSE IF Len(s) = 1 /\ s[1] \in {"+", "-"} THEN [ok |-> FALSE, value |-> 0]
    ELSE IF s[1] = "-" THEN ParseDigits(s, 2, 0, FALSE)
    ELSE IF s[1] = "+" THEN ParseDigits(s, 2, 0, TRUE)
    ELSE ParseDigits(s, 1, 0, TRUE)

\* file_name.parse::<i32>().is_err()
StemRejected_Never(s) == FALSE

StemRejected(s) == ~ ParseI32(s).ok

\* file_name.len() - 2 underflows (debug build) or the slice end is out of
\* range (release build): either way &file_name[..file_name.len() - 2] panics.
SlicePanics(s) == Len(s) < 2

\* &file_name[..file_name.len() - 2]
SignificantDigits(s) == SubSeq(s, 1, Len(s) - 2)

\* Stems of the .jpg files a working directory may hold.
Stems ==
    { <<"5">>, <<"4", "2">>, <<"1", "0", "0">>, <<"1", "0", "1">>,
      <<"-", "7">>, <<"a", "b", "c">>,
      <<"2", "1", "4", "7", "4", "8", "3", "6", "4", "8">> }

\* Directory listings: sequences of distinct stems, in enumeration order.
Listings ==
    { f \in UNION { [1..n -> Stems] : n \in 0..MaxFiles } :
        \A i, j \in DOMAIN f : i # j => f[i] # f[j] }

(* ------------------- file name of a post (Display) --------------------- *)

\* n as w decimal digits, zero padded
RECURSIVE Pad(_, _)
Pad(n, w) == IF w = 0 THEN << >> ELSE Append(Pad(n \div 10, w - 1), DigitChars[(n % 10) + 1])

\* Proleptic Gregorian date of the day number d (days since 2024-01-01).
CivilFromDays(d) ==
    LET z   == d + EpochDays2024 + 719468
        era == z \div 146097
        doe == z - era * 146097
        yoe == (doe - doe \div 1460 + doe \div 36524 - doe \div 146096) \div 365
        doy == doe - (365 * yoe + yoe \div 4 - yoe \div 100)
        mp  == (5 * doy + 2) \div 153
        dd  == doy - (153 * mp + 2) \div 5 + 1
        mm  == IF mp < 10 THEN mp + 3 ELSE mp - 9
        yy  == yoe + era * 400 + (IF mm <= 2 THEN 1 ELSE 0)
    IN  [year |-> yy, month |-> mm, day |-> dd]

\* Display of NaiveDateTime: "YYYY-MM-DD HH:MM:SS"
DisplayDateTime(dt) ==
    LET c == CivilFromDays(DateOf(dt))
        t == TimeOf(dt)
    IN  Pad(c.year, 4) \o <<"-">> \o Pad(c.month, 2) \o <<"-">> \o Pad(c.day, 2)
        \o <<" ">> \o Pad(t \div 3600, 2) \o <<":">> \o Pad((t \div 60) % 60, 2)
        \o <<":">> \o Pad(t % 60, 2)

\* format!("{}-{}.md", post_date_time, file_name)
PostFileName(dt, file_name) ==
    DisplayDateTime(dt) \o <<"-">> \o file_name \o <<".", "m", "d">>

(* --------------------------- tag extraction ---------------------------- *)

\* Characters an alt text is made of.
AltChars == {"T", "h", "e", "-", " "}

Texts == UNION { [1..n -> AltChars] : n \in 0..MaxTextLen }

\* The alt texts typed in a run over several files.
ShortTexts == UNION { [1..n -> AltChars] : n \in 0..MaxAltLen }

IsPunctuation(c) == c \in {"-", ".", ",", "!", "'"}

IsWhitespace(c) == c = " "

\* u8::to_ascii_lowercase on one character
LowerChar(c) ==
    CASE c = "T" -> "t"
      [] c = "H" -> "h"
      [] c = "E" -> "e"
      [] OTHER -> c

\* description.to_ascii_lowercase()
ToAsciiLowercase(s) == [i \in 1..Len(s) |-> LowerChar(s[i])]

\* regex_for_punctuation.replace_all(&lowercase_description, "")
RECURSIVE ReplaceAllPunctuation(_)
ReplaceAllPunctuation(s) ==
    IF s = << >> THEN << >>
    ELSE IF IsPunctuation(Head(s)) THEN ReplaceAllPunctuation(Tail(s))
    ELSE <<Head(s)>> \o ReplaceAllPunctuation(Tail(s))

\* the length of the run of punctuation at the head of s
RECURSIVE PunctuationRun(_)
PunctuationRun(s) ==
    IF s # << >> /\ IsPunctuation(Head(s)) THEN 1 + PunctuationRun(Tail(s)) ELSE 0

\* Regex::replace: only the first run of punctuation is removed
RECURSIVE ReplaceFirstPunctuation(_)
ReplaceFirstPunctuation(s) ==
    IF s = << >> THEN << >>
    ELSE IF IsPunctuation(Head(s)) THEN SubSeq(s, PunctuationRun(s) + 1, Len(s))
    ELSE <<Head(s)>> \o ReplaceFirstPunctuation(Tail(s))

\* str::split_whitespace: the maximal runs of non-whitespace, in order;
\* cur is the token being read.
RECURSIVE SplitFrom(_, _)
SplitFrom(s, cur) ==
    IF s = << >> THEN (IF cur = << >> THEN << >> ELSE <<cur>>)
    ELSE IF IsWhitespace(Head(s))
         THEN (IF cur = << >> THEN << >> ELSE <<cur>>) \o SplitFrom(Tail(s), << >>)
         ELSE SplitFrom(Tail(s), Append(cur, Head(s)))

SplitWhitespace(s) == SplitFrom(s, << >>)

\* get(LANGUAGE::English), restricted to the words the alphabet can spell
StopWords == { <<"t", "h", "e">>, <<"h", "e">> }

\* .filter(|tag| !stop_words.contains(&tag.to_string()))
RECURSIVE FilterStopWords(_)
FilterStopWords(ts) ==
    IF ts = << >> THEN << >>
    ELSE IF Head(ts) \in StopWords THEN FilterStopWords(Tail(ts))
    ELSE <<Head(ts)>> \o FilterStopWords(Tail(ts))

\* The tags bound into the template for one description.
ExtractTags_FilterFirst(description) ==
    LET toks == FilterStopWords(SplitWhitespace(ToAsciiLowercase(description)))
    IN  [i \in 1..Len(toks) |-> ReplaceAllPunctuation(toks[i])]

ExtractTags_ReplaceOnce(description) ==
    FilterStopWords(SplitWhitespace(ReplaceFirstPunctuation(ToAsciiLowercase(description))))

ExtractTags(description) ==
    LET lowercase_description == ToAsciiLowercase(description)
        description_without_punctuation == ReplaceAllPunctuation(lowercase_description)
    IN  FilterStopWords(SplitWhitespace(description_without_punctuation))

\* tags joined with single spaces
RECURSIVE JoinWithSpace(_)
JoinWithSpace(ts) ==
    IF ts = << >> THEN << >>
    ELSE IF Len(ts) = 1 THEN Head(ts)
    ELSE Head(ts) \o <<" ">> \o JoinWithSpace(Tail(ts))

(* ------------------------- u32 arithmetic ------------------------------ *)

Half == 65536

\* The u32 value hi * 65536 + lo
U32(hi, lo) == [hi |-> hi, lo |-> lo]

U32Lt(a, b) == a.hi < b.hi \/ (a.hi = b.hi /\ a.lo < b.lo)

U32Le(a, b) == a = b \/ U32Lt(a, b)

\* a - b modulo 2^32 (u32 subtraction in a build without overflow checks)
WrappingSub(a, b) ==
    IF a.lo >= b.lo
    THEN U32((a.hi - b.hi + Half) % Half, a.lo - b.lo)
    ELSE U32((a.hi - b.hi - 1 + Half) % Half, a.lo - b.lo + Half)

\* a + b = c as integers, without wrap-around
U32SumIs(a, b, c) ==
    LET carry == IF a.lo + b.lo >= Half THEN 1 ELSE 0
    IN  /\ c.lo = (a.lo + b.lo) % Half
        /\ c.hi = a.hi + b.hi + carry

\* Widths and heights of images: small ones and ones near u32::MAX.
Dims == { U32(hi, lo) : hi \in {0, Half - 1}, lo \in 0..MaxDim }

Sizes == [width : Dims, height : Dims]

NoSize == [width |-> U32(0, 0), height |-> U32(0, 0)]

NoOffset == [set |-> FALSE, x |-> U32(0, 0), y |-> U32(0, 0)]

\* image.get_width() - watermark_image.get_width() overflows in u32
OffsetUnderflows(img, wm) ==
    U32Lt(img.width, wm.width) \/ U32Lt(img.height, wm.height)

\* let x = ...; let y = ...; the offsets handed to watermark()
WatermarkOffset(img, wm) ==
    [set |-> TRUE,
     x |-> WrappingSub(img.width, wm.width),
     y |-> WrappingSub(img.height, wm.height)]

(* ------------------------------ state ---------------------------------- *)

ErrDate == "Date must be a Monday, Wednesday, or Friday"
ErrFile == "File name must be an integer"
PanicSlice == "panic: slice index"
PanicStdin == "panic: stdin"
PanicSubtract == "panic: attempt to subtract with overflow"

NoContext ==
    [title |-> << >>, significant_digit_title |-> << >>, upload_date |-> 0,
     description |-> << >>, tags |-> << >>]

Init ==
    /\ command = "none"
    /\ pc = "start"
    /\ result = "none"
    /\ dir \in Listings
    /\ date = 0
    /\ files = << >>
    /\ idx = 0
    /\ post_date_time = 0
    /\ enumerated = FALSE
    /\ prompts = 0
    /\ advances = 0
    /\ context = NoContext
    /\ written = << >>
    /\ build = "none"
    /\ image = NoSize
    /\ watermark_image = NoSize
    /\ offset = NoOffset

(* --------------------------- post command ------------------------------ *)

\* post(date) up to the loop: validation, enumeration, the initial date_time.
\* With no .jpg file the loop body never runs and post returns Ok(()).
PostStart(d) ==
    /\ pc = "start"
    /\ command' = "post"
    /\ date' = d
    /\ IF ~ ValidStart(d)
       THEN /\ result' = ErrDate
            /\ pc' = "done"
            /\ UNCHANGED <<files, enumerated, post_date_time>>
       ELSE /\ enumerated' = TRUE
            /\ files' = dir
            /\ post_date_time' = AndTime(d)
            /\ pc' = IF dir = << >> THEN "done" ELSE "loop"
            /\ result' = IF dir = << >> THEN "Ok" ELSE result
    /\ UNCHANGED <<dir, idx, prompts, advances, context, written>>
    /\ UNCHANGED markVars

\* The file the loop is at.
CurrentFile == files[idx + 1]

\* One iteration whose stem is not an i32: return Err.
PostFileNotInteger ==
    /\ pc = "loop"
    /\ StemRejected(CurrentFile)
    /\ result' = ErrFile
    /\ pc' = "done"
    /\ UNCHANGED <<command, dir>>
    /\ UNCHANGED postVars
    /\ UNCHANGED markVars

\* One iteration whose stem is an i32 shorter than two characters: the
\* slice panics before the prompt.
PostFileShortStem ==
    /\ pc = "loop"
    /\ ~ StemRejected(CurrentFile)
    /\ SlicePanics(CurrentFile)
    /\ result' = PanicSlice
    /\ pc' = "done"
    /\ UNCHANGED <<command, dir>>
    /\ UNCHANGED postVars
    /\ UNCHANGED markVars

\* One iteration where stdin is at end of input: the prompt is printed and
\* lines().next().unwrap() panics.
PostFileEndOfInput ==
    /\ pc = "loop"
    /\ ~ StemRejected(CurrentFile)
    /\ ~ SlicePanics(CurrentFile)
    /\ prompts' = prompts + 1
    /\ result' = PanicStdin
    /\ pc' = "done"
    /\ UNCHANGED <<command, dir, date, files, idx, post_date_time, enumerated,
                   advances, context, written>>
    /\ UNCHANGED markVars

\* One full iteration: prompt, read description, extract tags, render,
\* write the post, advance the schedule; after the last file return Ok(()).
PostFile(description) ==
    /\ pc = "loop"
    /\ ~ StemRejected(CurrentFile)
    /\ ~ SlicePanics(CurrentFile)
    /\ LET file_name == CurrentFile
           significant_digits == SignificantDigits(file_name)
           tags == ExtractTags(description)
       IN  /\ prompts' = prompts + 1
           /\ context' = [title |-> file_name,
                          significant_digit_title |-> significant_digits,
                          upload_date |-> Timestamp(post_date_time),
                          description |-> description,
                          tags |-> tags]
           /\ written' = Append(written,
                                [name |-> PostFileName(post_date_time, file_name),
                                 title |-> file_name,
                                 significant_digit_title |-> significant_digits,
                                 date_time |-> post_date_time])
    /\ post_date_time' = Advance(post_date_time)
    /\ advances' = advances + 1
    /\ idx' = idx + 1
    /\ pc' = IF idx + 1 = Len(files) THEN "done" ELSE "loop"
    /\ result' = IF idx + 1 = Len(files) THEN "Ok" ELSE result
    /\ UNCHANGED <<command, dir, date, files, enumerated>>
    /\ UNCHANGED markVars

(* --------------------------- mark command ------------------------------ *)

\* mark() up to the loop: the watermark is opened, the files enumerated.
MarkStart(wm, b) ==
    /\ pc = "start"
    /\ command' = "mark"
    /\ build' = b
    /\ watermark_image' = wm
    /\ enumerated' = TRUE
    /\ files' = dir
    /\ pc' = IF dir = << >> THEN "done" ELSE "mark"
    /\ result' = IF dir = << >> THEN "Ok" ELSE result
    /\ UNCHANGED <<dir, date, idx, post_date_time, prompts, advances, context,
                   written, image, offset>>

\* One iteration of mark's loop on an image of size img: add_watermark
\* computes the offsets; a build with overflow checks panics on underflow.
MarkFile(img) ==
    /\ pc = "mark"
    /\ image' = img
    /\ IF build = "debug" /\ OffsetUnderflows(img, watermark_image)
       THEN /\ result' = PanicSubtract
            /\ pc' = "done"
            /\ UNCHANGED <<offset, idx>>
       ELSE /\ offset' = WatermarkOffset(img, watermark_image)
            /\ idx' = idx + 1
            /\ pc' = IF idx + 1 = Len(files) THEN "done" ELSE "mark"
            /\ result' = IF idx + 1 = Len(files) THEN "Ok" ELSE result
    /\ UNCHANGED <<command, dir, date, files, post_date_time, enumerated,
                   prompts, advances, context, written, build, watermark_image>>

Next ==
    \/ \E d \in 0..MaxDay : PostStart(d)
    \/ PostFileNotInteger
    \/ PostFileShortStem
    \/ PostFileEndOfInput
    \/ \E description \in ShortTexts : PostFile(description)

\* Runs of `post` over every listing and start date.
Spec == Init /\ [][Next]_vars

\* A `post` run at its first file, past validation, with one file whose
\* stem is accepted: the state PostStart leaves for such a directory.
InitTags ==
    /\ command = "post"
    /\ pc = "loop"
    /\ result = "none"
    /\ dir \in { f \in Listings : Len(f) = 1 /\ ~ StemRejected(f[1]) /\ ~ SlicePanics(f[1]) }
    /\ date \in { d \in 0..MaxDay : ValidStart(d) }
    /\ files = dir
    /\ idx = 0
    /\ post_date_time = AndTime(date)
    /\ enumerated = TRUE
    /\ prompts = 0
    /\ advances = 0
    /\ context = NoContext
    /\ written = << >>
    /\ build = "none"
    /\ image = NoSize
    /\ watermark_image = NoSize
    /\ offset = NoOffset

NextTags == \E description \in Texts : PostFile(description)

\* The iteration of `post` on every alt text up to MaxTextLen characters.
SpecTags == InitTags /\ [][NextTags]_vars

\* File names for the runs of `mark`: the stems play no part in it.
MarkListings == { f \in Listings : \A i \in DOMAIN f : f[i] \in {<<"4", "2">>, <<"1", "0", "0">>} }

InitMark == Init /\ dir \in MarkListings

NextMark ==
    \/ \E wm \in Sizes, b \in {"debug", "release"} : MarkStart(wm, b)
    \/ \E img \in Sizes : MarkFile(img)

\* Runs of `mark` over every image and watermark size.
SpecMark == InitMark /\ [][NextMark]_vars

(* ------------------------------ claims --------------------------------- *)

PostingDays == {"Mon", "Wed", "Fri"}

\* C1: once post has checked its start date, the date was accepted (the
\* run went on to enumerate the directory) if and only if its weekday is
\* Monday, Wednesday or Friday, and it was refused with the invalid-input
\* error for each of the other four weekdays.
C1_StartAcceptedIffPostingDay ==
    (command = "post" /\ pc # "start") =>
        /\ enumerated <=> Weekday(date) \in PostingDays
        /\ result = ErrDate <=> Weekday(date) \in {"Tue", "Thu", "Sat", "Sun"}

C1_Witness ==
    /\ command = "post"
    /\ pc = "loop"
    /\ enumerated
    /\ Weekday(date) = "Fri"

\* C2: in every state of a post run that passed validation, the scheduled
\* date_time falls on a Monday, Wednesday or Friday at exactly 07:00:00.
C2_ScheduleOnPostingDayAtSeven ==
    (command = "post" /\ enumerated) =>
        /\ DateTimeWeekday(post_date_time) \in PostingDays
        /\ TimeOf(post_date_time) = 7 * 3600
        /\ post_date_time % 60 = 0

C2_Witness ==
    /\ command = "post"
    /\ advances = 2
    /\ Weekday(date) = "Wed"
    /\ DateTimeWeekday(post_date_time) = "Mon"

\* The advance rule as the specification words it: +2 days on Monday and
\* on Wednesday, +3 days on Friday.
RuleStep(dt) ==
    CASE DateTimeWeekday(dt) = "Mon" -> dt + 2 * 24 * 3600
      [] DateTimeWeekday(dt) = "Wed" -> dt + 2 * 24 * 3600
      [] DateTimeWeekday(dt) = "Fri" -> dt + 3 * 24 * 3600
      [] OTHER -> dt

RuleWeekday(w) ==
    CASE w = "Mon" -> "Wed"
      [] w = "Wed" -> "Fri"
      [] w = "Fri" -> "Mon"
      [] OTHER -> w

\* The start date d at 07:00 with the rule applied k - 1 times.
RECURSIVE ScheduledFor(_, _)
ScheduledFor(d, k) ==
    IF k = 1 THEN d * 24 * 3600 + 7 * 3600 ELSE RuleStep(ScheduledFor(d, k - 1))

\* C3: the k-th post written is the k-th file of the enumeration, dated
\* and named with the start date at 07:00 advanced k - 1 times by the rule
\* Mon -> Wed (+2 days), Wed -> Fri (+2 days), Fri -> Mon (+3 days); the
\* scheduler has advanced once per post written.
C3_KthFileScheduledByRule ==
    (command = "post" /\ enumerated) =>
        /\ advances = Len(written)
        /\ post_date_time = ScheduledFor(date, Len(written) + 1)
        /\ \A k \in 1..Len(written) :
              /\ written[k].title = files[k]
              /\ written[k].date_time = ScheduledFor(date, k)
              /\ written[k].name
                    = DisplayDateTime(ScheduledFor(date, k)) \o <<"-">> \o files[k]
                        \o <<".", "m", "d">>
              /\ k > 1 =>
                    DateTimeWeekday(written[k].date_time)
                        = RuleWeekday(DateTimeWeekday(written[k - 1].date_time))

C3_Witness ==
    /\ command = "post"
    /\ Len(written) = 2
    /\ Weekday(date) = "Mon"
    /\ DateTimeWeekday(written[1].date_time) = "Mon"
    /\ DateTimeWeekday(written[2].date_time) = "Wed"

\* C4: a start date that is not a Monday, Wednesday or Friday makes post
\* fail with the invalid-input error before anything else: the directory
\* is not enumerated, nothing is prompted, no post is written.
C4_BadStartDoesNothing ==
    (command = "post" /\ pc # "start" /\ Weekday(date) \notin PostingDays) =>
        /\ pc = "done"
        /\ result = ErrDate
        /\ ~ enumerated
        /\ files = << >>
        /\ idx = 0
        /\ prompts = 0
        /\ advances = 0
        /\ written = << >>

C4_Witness ==
    /\ command = "post"
    /\ result = ErrDate
    /\ Weekday(date) = "Tue"
    /\ Len(dir) = 2

\* The position of the first file whose stem is not an i32, 0 if none.
FirstNonInteger(fs) ==
    IF \E i \in 1..Len(fs) : ~ ParseI32(fs[i]).ok
    THEN CHOOSE i \in 1..Len(fs) :
            /\ ~ ParseI32(fs[i]).ok
            /\ \A j \in 1..(i - 1) : ParseI32(fs[j]).ok
    ELSE 0

\* C5: with the first non-integer stem at position N, the run never goes
\* past file N (no prompt and no post for it or a later file, never Ok);
\* when the run ends at file N it ends with the invalid-input error, and
\* then the posts of files 1..N-1 are written and in place and the
\* scheduler has advanced N - 1 times.
C5_NonIntegerStemStopsRun ==
    (command = "post" /\ enumerated) =>
        LET N == FirstNonInteger(files)
        IN  /\ result = ErrFile => N # 0
            /\ N # 0 =>
                 /\ idx <= N - 1
                 /\ prompts <= N - 1
                 /\ Len(written) <= N - 1
                 /\ advances <= N - 1
                 /\ result # "Ok"
                 /\ (pc = "done" /\ idx = N - 1) => result = ErrFile
                 /\ result = ErrFile =>
                      /\ idx = N - 1
                      /\ prompts = N - 1
                      /\ advances = N - 1
                      /\ Len(written) = N - 1
                      /\ \A k \in 1..(N - 1) : written[k].title = files[k]

C5_Witness ==
    /\ command = "post"
    /\ result = ErrFile
    /\ FirstNonInteger(files) = 2
    /\ Len(written) = 1
    /\ advances = 1

\* C6: no tag bound into the template is a stop word, also when the token
\* becomes a stop word only by lowercasing and removing punctuation.
C6_NoTagIsStopWord ==
    \A i \in 1..Len(context.tags) : context.tags[i] \notin StopWords

C6_Witness ==
    /\ Len(written) = 1
    /\ context.description = <<"T", "h", "-", "e">>
    /\ context.tags = << >>

\* C7: extracting tags from the tags joined with single spaces gives the
\* same sequence of tags again.
C7_ExtractionIdempotent ==
    Len(written) = 1 =>
        ExtractTags(JoinWithSpace(context.tags)) = context.tags

C7_Witness ==
    /\ Len(written) = 1
    /\ context.description = <<"e", "-", " ", "e">>
    /\ context.tags = << <<"e">>, <<"e">> >>

\* C8: a stem that parses as an integer never makes the run fail, whatever
\* its length, and its significant_digit_title is the stem without its
\* last two characters (empty when nothing remains).
C8_IntegerStemNeverFails ==
    command = "post" =>
        /\ result # PanicSlice
        /\ \A k \in 1..Len(written) :
              LET stem == written[k].title
              IN  written[k].significant_digit_title
                    = [i \in 1..(IF Len(stem) > 2 THEN Len(stem) - 2 ELSE 0) |-> stem[i]]

\* C9: the posts of one run have pairwise distinct file names, their
\* date_time strictly increasing from one post to the next, so the number
\* of distinct files written is the number of files processed.
C9_PostNamesDistinct ==
    command = "post" =>
        /\ \A i, j \in 1..Len(written) :
              i < j =>
                 /\ written[i].date_time < written[j].date_time
                 /\ written[i].name # written[j].name
        /\ Cardinality({ written[k].name : k \in 1..Len(written) }) = idx
        /\ Len(written) = idx

C9_Witness ==
    /\ command = "post"
    /\ Len(written) = 2
    /\ Weekday(date) = "Fri"
    /\ written[1].name # written[2].name

\* C10: add_watermark places the watermark at x, y with x + watermark
\* width = image width and y + watermark height = image height, within the
\* image, without underflow or wrap-around, for every pair of sizes.
C10_WatermarkAtBottomRight ==
    command = "mark" =>
        /\ result # PanicSubtract
        /\ offset.set =>
              /\ U32SumIs(offset.x, watermark_image.width, image.width)
              /\ U32SumIs(offset.y, watermark_image.height, image.height)
              /\ U32Le(offset.x, image.width)
              /\ U32Le(offset.y, image.height)

====
